---- MODULE Spec2Model ----
(***************************************************************************)
(* State-machine model of the VoterHack real-time dashboard engine:        *)
(*   - useRealtime (hooks/useRealtime.ts): the posteriors map, the push    *)
(*     subscription, the connectivity flag and the fallback poll interval; *)
(*   - TurnoutMap's change-detection effect (prevPosteriorsRef, pulses);   *)
(*   - Dashboard: the signal log, the recentlyUpdated highlight set and    *)
(*     its expiry timers, the delayed history load, unmount.               *)
(* One action is one handler (an event callback, a timer callback or the   *)
(* continuation of an await) together with the React effects its state     *)
(* updates re-run.  Time advances in steps of StepMs; a timer holds the    *)
(* time left until it fires.  Rates are integers: means in percent,        *)
(* divergence_z in hundredths.                                             *)
(***************************************************************************)
EXTENDS Integers, Sequences, FiniteSets, TLC

\* ------------------------------------------------------------------ bounds
\* Row versions a remote row can take in the synchronisation scenarios.
MaxVersion == 1
\* In-flight full fetches per election type.
MaxInflight == 1
\* Submissions the remote poll can hold in the log scenario.
MaxSubs == 52
\* Submissions the remote poll can hold in the highlight scenario.
MaxDashSubs == 2
\* Grid of the means (percent) the style callback is called with.
MeanStep == 5
\* Grid of the effective counts the style callback is called with.
NEffStep == 4
MaxNEffSteps == 4
\* Submissions the remote poll can hold in the classification scenario.
MaxClassifySubs == 1
MaxAdvance == 2

\* ------------------------------------------------------- program constants
PollIntervalMs == 2000
HighlightMs == 2000
PulseMs == 1500
HistoryDelayMs == 500
HistoryKeep == 50
LiveKeep == 49
KAnonymity == 5
QuestionCount == 3
\* Granularity of the clock: the shortest delay, which divides the other three.
StepMs == HistoryDelayMs

NULL == -1

ElectionType == {"midterm_2026", "presidential", "midterm"}
InitialElectionType == "midterm_2026"
GeoIds == {"PCT_0001", "PCT_0002"}
Statuses == {"SUBSCRIBED", "CHANNEL_ERROR", "TIMED_OUT", "CLOSED"}

NoTimer == [left |-> NULL]
NoCall == [pc |-> "none"]
NoStyleArgs == [geo_id |-> "none"]
NoStyle == [fillColor |-> "none"]
NoSnap == [read |-> FALSE]
NoChannel == [et |-> "none", live |-> FALSE]

\* ------------------------------------------------------------------- rows
\* A posterior_estimates row as the code reads it (sigma_*, delta_mean are
\* never read and are left out).
Row(g, e, prior, post, z, n, vis, upd) ==
    [geo_id |-> g, election_type |-> e, mu_prior |-> prior, mu_post |-> post,
     divergence_z |-> z, n_eff |-> n, is_visible |-> vis, updated_at |-> upd]

\* The v-th version of the row of precinct g under election type e: each
\* remote recomputation folds in more responses.
VersionRow(g, e, v) ==
    Row(g, e, 60, IF v = 0 THEN NULL ELSE 60 + v, IF v = 0 THEN NULL ELSE 50 * v,
        3 * v, 3 * v >= KAnonymity, v)

\* Rows of the synchronisation scenarios.
SyncRows == {VersionRow(g, e, v) : g \in GeoIds, e \in ElectionType, v \in 0..MaxVersion}

\* Rows of the change-detection scenario: one election type; mu_post and n_eff
\* vary on their own, and so do, together, the four other fields that a
\* recomputation can touch (mu_prior, divergence_z, is_visible, updated_at).
ChangeRows ==
    {Row(g, InitialElectionType, 60 + o, post, 100 * o, n, o = 1, o) :
        g \in GeoIds, post \in {NULL, 70}, n \in {0, 6}, o \in {0, 1}}

EmptyMap == [g \in {} |-> NULL]

\* Results a full fetch for election type e can return out of the rows R:
\* at most one row per geo_id, every row of election type e.
FetchResults(R, e) ==
    UNION {{f \in [S -> R] : \A g \in S : f[g].geo_id = g /\ f[g].election_type = e} :
              S \in SUBSET GeoIds}

VARIABLES
    mounted,            \* Dashboard is mounted
    electionType,       \* Dashboard state: the active partition
    posteriors,         \* useRealtime state: geo_id -> row
    connected,          \* useRealtime state
    prevElectionType,   \* useRealtime ref
    channel,            \* the subscription opened by the current effect: its
                        \* election type and whether its last status was SUBSCRIBED
    leaving,            \* election types of removed channels not yet closed
    inflight,           \* election type -> number of fetchPosteriors calls awaited
    pollTimer,          \* the fallback interval: [et, left] or NoTimer
    prevPosteriorsRef,  \* TurnoutMap ref
    changedGeoIds,      \* TurnoutMap effect: the verdict of its last run
    layerRefs,          \* TurnoutMap ref: geo_ids that have a map layer
    pulsing,            \* geo_ids whose element carries precinct-signal-pulse
    pulseTimers,        \* pending pulse removals: [geoId, left]
    signals,            \* Dashboard state: the signal log
    recentlyUpdated,    \* Dashboard state: the highlight set
    hlTimers,           \* pending highlight expiries: [geoId, left]
    activePoll,         \* Dashboard state: the poll id, or NULL
    historyTimer,       \* the delayed loadActivePoll: [left] or NoTimer
    historyPc,          \* loadActivePoll's position
    historySnap,        \* submissions the history query has read, or NULL
    remotePoll,         \* remote: the active poll's id, or NULL
    submissions,        \* remote: the poll's submissions, by created_at
    delivered,          \* remote: how far the live feed has got in submissions
    step,               \* PollForm state: the form's step
    errorMessage,       \* PollForm state
    submitCall,         \* the submitPollResponse call the form awaits, or NoCall
    styleArgs,          \* the feature the map's style callback is called for
    styleOut,           \* the path options the style callback returned, or NoStyle
    currentQuestion,    \* PollForm state: index of the question shown
    answered,           \* PollForm state: indices of the questions with an answer
    advanceTimers,      \* pending auto-advance callbacks of handleAnswer
    remote,             \* remote: geo_id -> version of its row (active partition)
    loadSnap,           \* rows the remote has read for the fetch in flight, or NoSnap
    sinceMark,          \* history: geo_id -> ms since its last mark (capped), or NULL
    last                \* history: the handler that ran last and its input

syncVars == <<electionType, posteriors, connected, prevElectionType, channel,
              leaving, inflight, pollTimer>>
mapVars == <<prevPosteriorsRef, changedGeoIds, layerRefs, pulsing, pulseTimers>>
dashVars == <<signals, recentlyUpdated, hlTimers, activePoll, historyTimer, historyPc,
              historySnap>>
remoteVars == <<remotePoll, submissions, delivered>>
formVars == <<step, errorMessage, submitCall>>
styleVars == <<styleArgs, styleOut>>
quizVars == <<currentQuestion, answered, advanceTimers>>
feedVars == <<remote, loadSnap>>
vars == <<mounted, syncVars, mapVars, dashVars, remoteVars, formVars, quizVars, feedVars, styleVars,
          sinceMark, last>>

\* ------------------------------------------------------- TurnoutMap effect
\* The change verdict of one precinct against the previous snapshot.
ChangedAnyField(prevMap, g, cur) ==
    g \notin DOMAIN prevMap \/ prevMap[g] # cur

Changed(prevMap, g, cur) ==
    \/ g \notin DOMAIN prevMap
    \/ prevMap[g].n_eff # cur.n_eff
    \/ prevMap[g].mu_post # cur.mu_post

ChangedIn(prevMap, curMap) == {g \in DOMAIN curMap : Changed(prevMap, g, curMap[g])}

\* setPosteriors(p) followed by the TurnoutMap effect that depends on posteriors:
\* the verdict, a pulse (with its removal timer) on every changed precinct that
\* has a layer, and the new previous snapshot.
SetPosteriors(p) ==
    LET changed == ChangedIn(prevPosteriorsRef, p)
        pulsed == changed \cap layerRefs
    IN  /\ posteriors' = p
        /\ changedGeoIds' = changed
        /\ prevPosteriorsRef' = p
        /\ pulsing' = pulsing \cup pulsed
        /\ pulseTimers' = pulseTimers \cup {[geoId |-> g, left |-> PulseMs] : g \in pulsed}
        /\ UNCHANGED layerRefs

KeepPosteriors == UNCHANGED <<posteriors, mapVars>>

\* ------------------------------------------------------------ useRealtime
\* fetchPosteriors: `data || []`, a failed query yields no rows.
FetchPosteriors(resp) == IF resp.ok THEN resp.data ELSE EmptyMap

\* What load() installs: the map built from the fetched rows alone.
LoadMerged(prev, data) ==
    [g \in DOMAIN prev \cup DOMAIN data |-> IF g \in DOMAIN data THEN data[g] ELSE prev[g]]

LoadInstalled(prev, data) == data

\* The push handler's write: new Map(prev).set(row.geo_id, row).
MapSet(prev, row) ==
    [g \in DOMAIN prev \cup {row.geo_id} |-> IF g = row.geo_id THEN row ELSE prev[g]]

\* The push handler's filter; closureEt is the election type its effect closed over.
PushAccepts(row, closureEt) == row.election_type = closureEt

\* The fallback-polling effect for a connectivity value and a load closure.
PollEffectAlways(conn, e) == [et |-> e, left |-> PollIntervalMs]

PollEffect(conn, e) ==
    IF conn THEN NoTimer ELSE [et |-> e, left |-> PollIntervalMs]

\* load() up to its await: one more fetchPosteriors(e) in flight.
LoadIssued(e) == [inflight EXCEPT ![e] = @ + 1]

\* Channels whose callbacks can still run: the subscribed one and the removed
\* ones the server has not closed yet.
Delivering == (IF channel = NoChannel THEN {} ELSE {channel.et}) \cup leaving

\* The history record of a handler run: its name, the election type or key it
\* ran for, the rows it carried, whether its request succeeded, and whether it
\* changed the store.
OpWith(name, e, rows, ok, wrote) ==
    [op |-> name, et |-> e, rows |-> rows, ok |-> ok, wrote |-> wrote]
Op(name) == OpWith(name, "none", EmptyMap, TRUE, FALSE)

\* The election-type buttons: re-render with e, then the cleanups of both
\* useRealtime effects and their bodies.
SetElectionType(e) ==
    /\ mounted
    /\ e # electionType
    /\ inflight[e] < MaxInflight
    /\ electionType' = e
    /\ leaving' = leaving \cup {channel.et}
    /\ IF prevElectionType # e THEN SetPosteriors(EmptyMap) ELSE KeepPosteriors
    /\ prevElectionType' = e
    /\ inflight' = LoadIssued(e)
    /\ channel' = [et |-> e, live |-> FALSE]
    /\ pollTimer' = PollEffect(connected, e)
    /\ last' = OpWith("SetElectionType", e, EmptyMap, TRUE, posteriors' # posteriors)
    /\ UNCHANGED <<formVars, styleVars, quizVars, feedVars, mounted, connected, dashVars, remoteVars, sinceMark>>

\* The continuation of load() for election type e: the awaited fetch returns.
LoadResolved(Resps) ==
    \E e \in ElectionType :
        /\ inflight[e] > 0
        /\ inflight' = [inflight EXCEPT ![e] = @ - 1]
        /\ \E resp \in Resps[e] :
              /\ IF mounted
                    THEN SetPosteriors(LoadInstalled(posteriors, FetchPosteriors(resp)))
                    ELSE KeepPosteriors
              /\ last' = OpWith("LoadResolve", e, FetchPosteriors(resp), resp.ok,
                                    posteriors' # posteriors)
        /\ UNCHANGED <<formVars, styleVars, quizVars,
                       mounted, electionType, connected, prevElectionType, channel,
                       leaving, pollTimer, dashVars, remoteVars, sinceMark>>

\* The same, the remote answering with any result out of the rows R or with
\* an error.
LoadResolve(R) ==
    /\ LoadResolved([e \in ElectionType |->
                        {[ok |-> TRUE, data |-> d] : d \in FetchResults(R, e)}
                            \cup {[ok |-> FALSE, data |-> EmptyMap]}])
    /\ UNCHANGED feedVars

\* The postgres_changes callback of the channel opened for election type c.
PushHandled(R) ==
    \E c \in Delivering : \E row \in R :
        /\ mounted
        /\ IF PushAccepts(row, c)
              THEN SetPosteriors(MapSet(posteriors, row))
              ELSE KeepPosteriors
        /\ last' = OpWith("PushEvent", c, MapSet(EmptyMap, row), TRUE,
                          posteriors' # posteriors)
        /\ UNCHANGED <<formVars, styleVars, quizVars,
                       mounted, electionType, connected, prevElectionType, channel,
                       leaving, inflight, pollTimer, dashVars, remoteVars, sinceMark>>

\* The same, the remote pushing any row out of R.
PushEvent(R) == PushHandled(R) /\ UNCHANGED feedVars

\* The status callback without the polling effect that the change of
\* `connected` re-runs.
SubscribeStatusKeepsTimer ==
    \E c \in Delivering : \E status \in Statuses :
        /\ mounted
        /\ connected' = (status = "SUBSCRIBED")
        /\ channel' = IF channel # NoChannel /\ c = channel.et
                         THEN [channel EXCEPT !.live = (status = "SUBSCRIBED")] ELSE channel
        /\ pollTimer' = pollTimer
        /\ last' = OpWith("SubscribeStatus", c, EmptyMap, status = "SUBSCRIBED", FALSE)
        /\ KeepPosteriors
        /\ UNCHANGED <<formVars, styleVars, quizVars, feedVars,
                       mounted, electionType, prevElectionType, leaving, inflight,
                       dashVars, remoteVars, sinceMark>>

\* The subscribe callback of the channel opened for election type c, and the
\* polling effect when connected changes.
SubscribeStatus ==
    \E c \in Delivering : \E status \in Statuses :
        /\ mounted
        /\ connected' = (status = "SUBSCRIBED")
        /\ channel' = IF channel # NoChannel /\ c = channel.et
                         THEN [channel EXCEPT !.live = (status = "SUBSCRIBED")] ELSE channel
        /\ pollTimer' = IF connected' # connected
                           THEN PollEffect(connected', electionType) ELSE pollTimer
        /\ last' = OpWith("SubscribeStatus", c, EmptyMap, status = "SUBSCRIBED", FALSE)
        /\ KeepPosteriors
        /\ UNCHANGED <<formVars, styleVars, quizVars, feedVars,
                       mounted, electionType, prevElectionType, leaving, inflight,
                       dashVars, remoteVars, sinceMark>>

\* The server closes a removed channel: it delivers nothing afterwards.
ChannelClosed ==
    \E c \in leaving :
        /\ leaving' = leaving \ {c}
        /\ last' = OpWith("ChannelClosed", c, EmptyMap, TRUE, FALSE)
        /\ KeepPosteriors
        /\ UNCHANGED <<formVars, styleVars, quizVars, feedVars,
                       mounted, electionType, connected, prevElectionType, channel,
                       inflight, pollTimer, dashVars, remoteVars, sinceMark>>

\* The interval callback: load() of the closure the interval was created with.
PollTick ==
    /\ pollTimer # NoTimer
    /\ pollTimer.left = 0
    /\ inflight[pollTimer.et] < MaxInflight
    /\ inflight' = LoadIssued(pollTimer.et)
    /\ pollTimer' = [pollTimer EXCEPT !.left = PollIntervalMs]
    /\ last' = OpWith("PollTick", pollTimer.et, EmptyMap, TRUE, FALSE)
    /\ KeepPosteriors
    /\ UNCHANGED <<formVars, styleVars, quizVars, feedVars,
                   mounted, electionType, connected, prevElectionType, channel,
                   leaving, dashVars, remoteVars, sinceMark>>

\* -------------------------------------------------------------- Dashboard
NeighborTurnoutLevel == {"almost_all", "most", "about_half", "probably_not", "definitely_not"}
TurnoutDirection == {"much_higher", "little_higher", "about_same", "little_lower", "much_lower"}

TurnoutScore(t) ==
    CASE t = "almost_all" -> 2 [] t = "most" -> 1 [] t = "about_half" -> 0
      [] t = "probably_not" -> -1 [] t = "definitely_not" -> -2

DirectionScore(d) ==
    CASE d = "much_higher" -> 2 [] d = "little_higher" -> 1 [] d = "about_same" -> 0
      [] d = "little_lower" -> -1 [] d = "much_lower" -> -2

\* getSignalType: combined = turnoutScore + directionScore * 0.5, compared with
\* +-0.5; here doubled, so that it stays an integer.
GetSignalTypeInclusive(t, d) ==
    LET combined2 == 2 * TurnoutScore(t) + DirectionScore(d)
    IN  IF combined2 >= 1 THEN "higher" ELSE IF combined2 <= -1 THEN "lower" ELSE "same"

GetSignalType(t, d) ==
    LET combined2 == 2 * TurnoutScore(t) + DirectionScore(d)
    IN  IF combined2 > 1 THEN "higher" ELSE IF combined2 < -1 THEN "lower" ELSE "same"

\* The shift tables, in hundredths.
SignalScore(t) ==
    CASE t = "almost_all" -> 15 [] t = "most" -> 8 [] t = "about_half" -> 0
      [] t = "probably_not" -> -8 [] t = "definitely_not" -> -15

ShiftDirectionScore(d) ==
    CASE d = "much_higher" -> 10 [] d = "little_higher" -> 5 [] d = "about_same" -> 0
      [] d = "little_lower" -> -5 [] d = "much_lower" -> -10

\* posteriorShift = (signalScore + directionScore * 0.5) * 0.1, in units of 1/2000.
PosteriorShift(t, d) == 2 * SignalScore(t) + ShiftDirectionScore(d)

Abs(x) == IF x < 0 THEN -x ELSE x

\* impact of a live signal: |divergence_z ?? 0| of the precinct's current row,
\* in hundredths, against 1.5 and 0.75.
Impact(p, g) ==
    LET z == IF g \in DOMAIN p /\ p[g].divergence_z # NULL THEN p[g].divergence_z ELSE 0
    IN  IF Abs(z) >= 150 THEN "large" ELSE IF Abs(z) >= 75 THEN "medium" ELSE "small"

LiveSignal(sub, p) ==
    [id |-> sub.id, geoId |-> sub.geo_id,
     signalType |-> GetSignalType(sub.neighbor_turnout, sub.turnout_direction),
     impact |-> Impact(p, sub.geo_id),
     posteriorShift |-> PosteriorShift(sub.neighbor_turnout, sub.turnout_direction)]

\* `x || 0` on a number.
OrZero(x) == IF x = 0 THEN 0 ELSE x

\* The tables of loadActivePoll, each lookup followed by `|| 0`.
LoadedSignalScore(t) ==
    OrZero(CASE t = "almost_all" -> 15 [] t = "most" -> 8 [] t = "about_half" -> 0
             [] t = "probably_not" -> -8 [] t = "definitely_not" -> -15)

LoadedDirectionScore(d) ==
    OrZero(CASE d = "much_higher" -> 10 [] d = "little_higher" -> 5 [] d = "about_same" -> 0
             [] d = "little_lower" -> -5 [] d = "much_lower" -> -10)

\* The history path with the secondary field at full weight.
LoadedPosteriorShiftFullWeight(t, d) == 2 * LoadedSignalScore(t) + 2 * LoadedDirectionScore(d)

\* posteriorShift of loadActivePoll, in units of 1/2000.
LoadedPosteriorShift(t, d) == 2 * LoadedSignalScore(t) + LoadedDirectionScore(d)

LoadedSignal(sub) ==
    [id |-> sub.id, geoId |-> sub.geo_id,
     signalType |-> GetSignalType(sub.neighbor_turnout, sub.turnout_direction),
     impact |-> "medium",
     posteriorShift |-> LoadedPosteriorShift(sub.neighbor_turnout, sub.turnout_direction)]

\* Array.prototype.slice(-n).
SliceLast(s, n) == IF Len(s) <= n THEN s ELSE SubSeq(s, Len(s) - n + 1, Len(s))

\* setSignals(loadedSignals.slice(-50)).
LoadedLog(loaded) == SliceLast(loaded, HistoryKeep)

\* setSignals(prev => [...prev.slice(-49), newSignal]).
AppendedKeepAll(prev, sig) == Append(prev, sig)

Appended(prev, sig) == Append(SliceLast(prev, LiveKeep), sig)

\* A mark that schedules no expiry.
MarkedTimersNone(timers, g) == timers

\* The highlight mark: the key joins the set and one more expiry is scheduled;
\* timers that are already pending stay.
MarkedTimers(timers, g) == timers \cup {[geoId |-> g, left |-> HighlightMs]}

\* TurnoutMap's second effect, re-run when recentlyUpdated is a new set: a pulse
\* on every highlighted precinct that has a layer.
RunRecentEffect(ru) ==
    /\ pulsing' = pulsing \cup (ru \cap layerRefs)
    /\ pulseTimers' = pulseTimers \cup {[geoId |-> g, left |-> PulseMs] : g \in ru \cap layerRefs}

\* A voter's submission reaches the remote poll (PollForm, another client).
\* Paced voters submit before the dashboard follows the poll or after its
\* history load is over, and then leave it the time to handle a submission
\* fully (delivery, refresh, highlight expiry) before the next one arrives.
Submit(G, T, D, max, paced) ==
    \E g \in G : \E t \in T : \E d \in D :
        /\ remotePoll # NULL
        /\ Len(submissions) < max
        /\ paced => \/ activePoll = NULL
                    \/ /\ historyPc = "done"
                       /\ delivered = Len(submissions)
                       /\ hlTimers = {}
                       /\ inflight[electionType] = 0
        /\ submissions' = Append(submissions,
               [id |-> Len(submissions) + 1, geo_id |-> g,
                neighbor_turnout |-> t, turnout_direction |-> d])
        /\ last' = Op("Submit")
        /\ UNCHANGED <<formVars, styleVars, quizVars, feedVars,
                       mounted, syncVars, mapVars, dashVars, remotePoll, delivered, sinceMark>>

\* TurnoutMap: the GeoJSON arrives and is rendered, every feature gets a layer.
GeoLoaded ==
    /\ mounted
    /\ layerRefs = {}
    /\ layerRefs' = GeoIds
    /\ last' = Op("GeoLoaded")
    /\ UNCHANGED <<formVars, styleVars, quizVars, feedVars,
                   mounted, syncVars, prevPosteriorsRef, changedGeoIds, pulsing,
                   pulseTimers, dashVars, remoteVars, sinceMark>>

\* setTimeout(loadActivePoll, 500) fires: the polls query is sent.
HistoryTimerFires ==
    /\ historyTimer # NoTimer
    /\ historyTimer.left = 0
    /\ historyTimer' = NoTimer
    /\ historyPc' = "pollQuery"
    /\ last' = Op("HistoryTimerFires")
    /\ UNCHANGED <<formVars, styleVars, quizVars, feedVars,
                   mounted, syncVars, mapVars, signals, recentlyUpdated, hlTimers,
                   activePoll, historySnap, remoteVars, sinceMark>>

\* loadActivePoll after its first await: no poll, return; else setActivePoll
\* (the live subscription opens from here on) and the submissions query is sent.
PollQueryResolve ==
    /\ historyPc = "pollQuery"
    /\ IF remotePoll = NULL
          THEN /\ historyPc' = "done"
               /\ UNCHANGED <<activePoll, delivered>>
          ELSE /\ historyPc' = "subsQuery"
               /\ IF mounted
                     THEN activePoll' = remotePoll /\ delivered' = Len(submissions)
                     ELSE UNCHANGED <<activePoll, delivered>>
    /\ last' = Op("PollQueryResolve")
    /\ UNCHANGED <<formVars, styleVars, quizVars, feedVars,
                   mounted, syncVars, mapVars, signals, recentlyUpdated, hlTimers,
                   historyTimer, historySnap, remotePoll, submissions, sinceMark>>

\* The remote executes the submissions query.
SubsQueryRead ==
    /\ historyPc = "subsQuery"
    /\ historyPc' = "subsRead"
    /\ historySnap' = Len(submissions)
    /\ last' = Op("SubsQueryRead")
    /\ UNCHANGED <<formVars, styleVars, quizVars, feedVars,
                   mounted, syncVars, mapVars, signals, recentlyUpdated, hlTimers,
                   activePoll, historyTimer, remoteVars, sinceMark>>

\* loadActivePoll after its second await.
SubsQueryResolve ==
    /\ historyPc = "subsRead"
    /\ historyPc' = "done"
    /\ \E ok \in BOOLEAN :
          LET loaded == [i \in 1..historySnap |-> LoadedSignal(submissions[i])]
          IN  /\ signals' = IF mounted /\ ok /\ historySnap > 0
                               THEN LoadedLog(loaded) ELSE signals
              /\ last' = OpWith("SubsQueryResolve", "none", EmptyMap, ok, FALSE)
    /\ UNCHANGED <<formVars, styleVars, quizVars, feedVars,
                   mounted, syncVars, mapVars, recentlyUpdated, hlTimers, activePoll,
                   historyTimer, historySnap, remoteVars, sinceMark>>

\* The INSERT callback of the poll_submissions subscription.
LiveSubmission ==
    /\ mounted
    /\ activePoll # NULL
    /\ delivered < Len(submissions)
    /\ inflight[electionType] < MaxInflight
    /\ LET sub == submissions[delivered + 1]
       IN  /\ signals' = Appended(signals, LiveSignal(sub, posteriors))
           /\ recentlyUpdated' = recentlyUpdated \cup {sub.geo_id}
           /\ hlTimers' = MarkedTimers(hlTimers, sub.geo_id)
           /\ sinceMark' = [sinceMark EXCEPT ![sub.geo_id] = 0]
           /\ RunRecentEffect(recentlyUpdated')
           /\ last' = OpWith("LiveSubmission", sub.geo_id, EmptyMap, TRUE, FALSE)
    /\ delivered' = delivered + 1
    /\ inflight' = LoadIssued(electionType)
    /\ UNCHANGED <<formVars, styleVars, quizVars, feedVars,
                   mounted, electionType, posteriors, connected, prevElectionType,
                   channel, leaving, pollTimer, prevPosteriorsRef, changedGeoIds,
                   layerRefs, activePoll, historyTimer, historyPc, historySnap,
                   remotePoll, submissions>>

\* A highlight expiry fires: the key leaves the set (a state update after
\* unmount is discarded).
HighlightExpire ==
    \E t \in hlTimers :
        /\ t.left = 0
        /\ hlTimers' = hlTimers \ {t}
        /\ IF mounted
              THEN /\ recentlyUpdated' = recentlyUpdated \ {t.geoId}
                   /\ RunRecentEffect(recentlyUpdated')
              ELSE UNCHANGED <<recentlyUpdated, pulsing, pulseTimers>>
        /\ last' = OpWith("HighlightExpire", t.geoId, EmptyMap, TRUE, FALSE)
        /\ UNCHANGED <<formVars, styleVars, quizVars, feedVars,
                       mounted, syncVars, prevPosteriorsRef, changedGeoIds, layerRefs,
                       signals, activePoll, historyTimer, historyPc, historySnap,
                       remoteVars, sinceMark>>

\* A pulse removal fires: the class leaves the element.
PulseRemove ==
    \E t \in pulseTimers :
        /\ t.left = 0
        /\ pulseTimers' = pulseTimers \ {t}
        /\ pulsing' = pulsing \ {t.geoId}
        /\ last' = OpWith("PulseRemove", t.geoId, EmptyMap, TRUE, FALSE)
        /\ UNCHANGED <<formVars, styleVars, quizVars, feedVars,
                       mounted, syncVars, prevPosteriorsRef, changedGeoIds, layerRefs,
                       dashVars, remoteVars, sinceMark>>

\* Dashboard unmounts: the effect cleanups run.
Unmount ==
    /\ mounted
    /\ mounted' = FALSE
    /\ leaving' = leaving \cup {channel.et}
    /\ channel' = NoChannel
    /\ pollTimer' = NoTimer
    /\ historyTimer' = NoTimer
    /\ last' = Op("Unmount")
    /\ KeepPosteriors
    /\ UNCHANGED <<formVars, styleVars, quizVars, feedVars,
                   electionType, connected, prevElectionType, inflight, signals,
                   recentlyUpdated, hlTimers, activePoll, historyPc, historySnap,
                   remoteVars, sinceMark>>

\* ---------------------------------------------------------------- PollForm
\* handleSubmit up to its await: the verified voter of precinct g has given
\* every answer; the form shows the spinner and submitPollResponse sends the
\* insert.
HandleSubmit(G, T, D) ==
    \E g \in G : \E t \in T : \E d \in D :
        /\ step = "questions"
        /\ remotePoll # NULL
        /\ step' = "submitting"
        /\ submitCall' = [pc |-> "insert", geo_id |-> g, neighbor_turnout |-> t,
                          turnout_direction |-> d]
        /\ last' = OpWith("HandleSubmit", g, EmptyMap, TRUE, FALSE)
        /\ UNCHANGED <<mounted, syncVars, mapVars, dashVars, remoteVars, errorMessage,
                       styleVars, quizVars, feedVars, sinceMark>>

\* submitPollResponse after the insert: on insertError it returns
\* {success: false} and handleSubmit shows the error; else the submission is
\* recorded and process_poll_submission is called.
InsertResolve ==
    /\ submitCall.pc = "insert"
    /\ \E ok \in BOOLEAN :
          /\ IF ok
                THEN /\ submissions' = Append(submissions,
                            [id |-> Len(submissions) + 1, geo_id |-> submitCall.geo_id,
                             neighbor_turnout |-> submitCall.neighbor_turnout,
                             turnout_direction |-> submitCall.turnout_direction])
                     /\ submitCall' = [submitCall EXCEPT !.pc = "rpc"]
                     /\ UNCHANGED <<step, errorMessage>>
                ELSE /\ step' = "error"
                     /\ errorMessage' = "insertError.message"
                     /\ submitCall' = NoCall
                     /\ UNCHANGED submissions
          /\ last' = OpWith("InsertResolve", submitCall.geo_id, EmptyMap, ok, FALSE)
    /\ UNCHANGED <<mounted, syncVars, mapVars, dashVars, remotePoll, delivered,
                   styleVars, quizVars, feedVars, sinceMark>>

\* submitPollResponse after the rpc: success whether the update failed or not.
RpcResolveStrict ==
    /\ submitCall.pc = "rpc"
    /\ submitCall' = NoCall
    /\ \E ok \in BOOLEAN :
          /\ step' = IF ok THEN "success" ELSE "error"
          /\ errorMessage' = IF ok THEN errorMessage ELSE "updateError.message"
          /\ last' = OpWith("RpcResolve", submitCall.geo_id, EmptyMap, ok, FALSE)
    /\ UNCHANGED <<mounted, syncVars, mapVars, dashVars, remoteVars, styleVars, quizVars, feedVars, sinceMark>>

RpcResolve ==
    /\ submitCall.pc = "rpc"
    /\ submitCall' = NoCall
    /\ step' = "success"
    /\ \E ok \in BOOLEAN :
          last' = OpWith("RpcResolve", submitCall.geo_id, EmptyMap, ok, FALSE)
    /\ UNCHANGED <<mounted, syncVars, mapVars, dashVars, remoteVars, errorMessage,
                   styleVars, quizVars, feedVars, sinceMark>>

\* ------------------------------------------------------- TurnoutMap style
\* Means are in percent, opacities in thousandths, glow intensities in
\* hundredths, border weights in tenths.
Min(a, b) == IF a < b THEN a ELSE b
Max(a, b) == IF a > b THEN a ELSE b

\* posteriors.get(geoId) of a precinct that has no record.
NoRecord == [geo_id |-> "none"]

\* posterior?.is_visible ?? false
HasLiveCalibration(p) == p # NoRecord /\ p.is_visible

\* The displayed mean: posterior?.mu_post ?? muPrior if calibrated, else muPrior.
TurnoutUncalibrated(muPrior, p) ==
    IF p # NoRecord /\ p.mu_post # NULL THEN p.mu_post ELSE muPrior

Turnout(muPrior, p) ==
    IF HasLiveCalibration(p)
       THEN (IF p.mu_post # NULL THEN p.mu_post ELSE muPrior)
       ELSE muPrior

\* Math.max(0, Math.min(1, (turnout - 0.25) / 0.55)), times 5500.
Normalized(turnout) == Max(0, Min(5500, (turnout - 25) * 100))

FlashColor == "#00FFFF"

\* getTurnoutColor; a threshold k/100 on normalized is k * 55 here.
GetTurnoutColorSwapped(muPrior, p, isRecentlyUpdated) ==
    LET normalized == Normalized(Turnout(muPrior, p))
    IN  IF isRecentlyUpdated THEN FlashColor
        ELSE IF normalized >= 85 * 55 THEN "#22D3EE"
        ELSE IF normalized >= 70 * 55 THEN "#00E5FF"
        ELSE IF normalized >= 55 * 55 THEN "#06B6D4"
        ELSE IF normalized >= 40 * 55 THEN "#0891B2"
        ELSE IF normalized >= 25 * 55 THEN "#0E7490"
        ELSE IF normalized >= 10 * 55 THEN "#155E75"
        ELSE "#164E63"

GetTurnoutColor(muPrior, p, isRecentlyUpdated) ==
    LET normalized == Normalized(Turnout(muPrior, p))
    IN  IF isRecentlyUpdated THEN FlashColor
        ELSE IF normalized >= 85 * 55 THEN "#00E5FF"
        ELSE IF normalized >= 70 * 55 THEN "#22D3EE"
        ELSE IF normalized >= 55 * 55 THEN "#06B6D4"
        ELSE IF normalized >= 40 * 55 THEN "#0891B2"
        ELSE IF normalized >= 25 * 55 THEN "#0E7490"
        ELSE IF normalized >= 10 * 55 THEN "#155E75"
        ELSE "#164E63"

\* posterior?.n_eff ?? 0
Responses(p) == IF p # NoRecord /\ p.n_eff # NULL THEN p.n_eff ELSE 0

\* getOpacity
GetOpacityUncapped(p, isRecentlyUpdated) ==
    IF isRecentlyUpdated THEN 950
    ELSE IF HasLiveCalibration(p) THEN 600 + Responses(p) * 25
    ELSE 550

GetOpacityLowBase(p, isRecentlyUpdated) ==
    IF isRecentlyUpdated THEN 950
    ELSE IF HasLiveCalibration(p) THEN Min(900, 550 + Responses(p) * 25)
    ELSE 550

GetOpacity(p, isRecentlyUpdated) ==
    IF isRecentlyUpdated THEN 950
    ELSE IF HasLiveCalibration(p) THEN Min(900, 600 + Responses(p) * 25)
    ELSE 550

\* getGlowIntensity
GetGlowIntensity(p, muPrior) ==
    LET turnout == Turnout(muPrior, p)
        boost == IF HasLiveCalibration(p) THEN 10 ELSE 0
    IN  IF turnout >= 70 THEN 50 + boost
        ELSE IF turnout >= 60 THEN 25 + boost
        ELSE 0

\* style: the border colour; rgba(0, 255, 255, a) keeps its alpha in hundredths.
BorderColor(isSelected, isRecentlyUpdated, glowIntensity) ==
    IF isSelected THEN [rgb |-> FlashColor, a |-> 100]
    ELSE IF isRecentlyUpdated THEN [rgb |-> FlashColor, a |-> 100]
    ELSE IF glowIntensity > 0 THEN [rgb |-> FlashColor, a |-> glowIntensity]
    ELSE [rgb |-> "#0F172A", a |-> 100]

\* style: the border weight.
WeightFlat(isSelected, isRecentlyUpdated, glowIntensity) ==
    IF isSelected \/ isRecentlyUpdated THEN 25
    ELSE IF glowIntensity > 0 THEN 10
    ELSE 5

Weight(isSelected, isRecentlyUpdated, glowIntensity) ==
    IF isSelected THEN 25
    ELSE IF isRecentlyUpdated THEN 20
    ELSE IF glowIntensity > 0 THEN 10
    ELSE 5

\* p?.mu_prior ?? props.mu_prior
MuPrior(a) == IF a.p # NoRecord /\ a.p.mu_prior # NULL THEN a.p.mu_prior ELSE a.propsMuPrior

\* style(feature) for a feature whose record is a.p, whose GeoJSON baseline is
\* a.propsMuPrior, with a.isSelected = (geoId === selected) and
\* a.isRecentlyUpdated = recentlyUpdated.has(geoId).
Style(a) ==
    LET glowIntensity == GetGlowIntensity(a.p, MuPrior(a))
    IN  [fillColor |-> GetTurnoutColor(MuPrior(a), a.p, a.isRecentlyUpdated),
         fillOpacity |-> GetOpacity(a.p, a.isRecentlyUpdated),
         color |-> BorderColor(a.isSelected, a.isRecentlyUpdated, glowIntensity),
         weight |-> Weight(a.isSelected, a.isRecentlyUpdated, glowIntensity),
         className |-> IF a.isRecentlyUpdated THEN "precinct-updating" ELSE ""]

\* The features the style callback is called for.
Means == {MeanStep * k : k \in 0..(100 \div MeanStep)}
NEffs == {NEffStep * k : k \in 0..MaxNEffSteps}
StyleRecords ==
    {Row("PCT_0001", InitialElectionType, prior, post, NULL, n, vis, 0) :
        prior \in Means \cup {NULL}, post \in Means \cup {NULL},
        n \in NEffs \cup {NULL}, vis \in BOOLEAN} \cup {NoRecord}
StyleInputs ==
    {[geo_id |-> "PCT_0001", p |-> p, propsMuPrior |-> m, isSelected |-> sel,
      isRecentlyUpdated |-> ru] :
        p \in StyleRecords, m \in {40, 70}, sel \in BOOLEAN, ru \in BOOLEAN}

\* The map layer calls style for the feature: it returns the path options and
\* does nothing else.
StyleFeatureMarking ==
    /\ styleArgs # NoStyleArgs
    /\ styleOut' = Style(styleArgs)
    /\ pulsing' = IF styleArgs.isRecentlyUpdated THEN pulsing \cup {styleArgs.geo_id}
                  ELSE pulsing
    /\ pulseTimers' = IF styleArgs.isRecentlyUpdated
                         THEN pulseTimers \cup {[geoId |-> styleArgs.geo_id, left |-> PulseMs]}
                         ELSE pulseTimers
    /\ last' = Op("StyleFeature")
    /\ UNCHANGED <<mounted, syncVars, prevPosteriorsRef, changedGeoIds, layerRefs,
                   dashVars, remoteVars, formVars, quizVars, feedVars, styleArgs, sinceMark>>

StyleFeature ==
    /\ styleArgs # NoStyleArgs
    /\ styleOut' = Style(styleArgs)
    /\ last' = Op("StyleFeature")
    /\ UNCHANGED <<mounted, syncVars, mapVars, dashVars, remoteVars, formVars, quizVars, feedVars,
                   styleArgs, sinceMark>>

\* ------------------------------------------------------------------ time
Pending == {t.left : t \in hlTimers \cup pulseTimers}
              \cup (IF pollTimer = NoTimer THEN {} ELSE {pollTimer.left})
              \cup (IF historyTimer = NoTimer THEN {} ELSE {historyTimer.left})

Elapse(timers) == {[t EXCEPT !.left = @ - StepMs] : t \in timers}

\* StepMs pass: no timer is due, every pending timer comes StepMs closer.
Tick ==
    /\ Pending # {}
    /\ \A l \in Pending : l > 0
    /\ hlTimers' = Elapse(hlTimers)
    /\ pulseTimers' = Elapse(pulseTimers)
    /\ pollTimer' = IF pollTimer = NoTimer THEN NoTimer
                    ELSE [pollTimer EXCEPT !.left = @ - StepMs]
    /\ historyTimer' = IF historyTimer = NoTimer THEN NoTimer
                       ELSE [historyTimer EXCEPT !.left = @ - StepMs]
    /\ sinceMark' = [g \in GeoIds |->
                        IF sinceMark[g] = NULL THEN NULL
                        ELSE IF sinceMark[g] + StepMs > HighlightMs THEN HighlightMs
                        ELSE sinceMark[g] + StepMs]
    /\ last' = Op("Tick")
    /\ UNCHANGED <<formVars, styleVars, quizVars, feedVars,
                   mounted, electionType, posteriors, connected, prevElectionType,
                   channel, leaving, inflight, prevPosteriorsRef, changedGeoIds,
                   layerRefs, pulsing, signals, recentlyUpdated, activePoll, historyPc,
                   historySnap, remoteVars>>

\* ------------------------------------------------------- specifications
\* The state after Dashboard's first render and its mount effects: the initial
\* load is in flight, the channel is joining, the interval and the delayed
\* history load are scheduled.
InitEngine(poll) ==
    /\ mounted = TRUE
    /\ electionType = InitialElectionType
    /\ posteriors = EmptyMap
    /\ connected = FALSE
    /\ prevElectionType = InitialElectionType
    /\ channel = [et |-> InitialElectionType, live |-> FALSE]
    /\ leaving = {}
    /\ inflight = [e \in ElectionType |-> IF e = InitialElectionType THEN 1 ELSE 0]
    /\ pollTimer = PollEffect(FALSE, InitialElectionType)
    /\ prevPosteriorsRef = EmptyMap
    /\ changedGeoIds = {}
    /\ layerRefs = {}
    /\ pulsing = {}
    /\ pulseTimers = {}
    /\ signals = <<>>
    /\ recentlyUpdated = {}
    /\ hlTimers = {}
    /\ activePoll = NULL
    /\ historyTimer = [left |-> HistoryDelayMs]
    /\ historyPc = "idle"
    /\ historySnap = NULL
    /\ remotePoll = poll
    /\ submissions = <<>>
    /\ delivered = 0
    /\ sinceMark = [g \in GeoIds |-> NULL]
    /\ currentQuestion = 0
    /\ answered = {}
    /\ advanceTimers = 0
    /\ remote = [g \in GeoIds |-> 0]
    /\ loadSnap = NoSnap
    /\ last = Op("mount")

\* The same, the poll form not opened and the map not drawn yet.
InitWith(poll) ==
    /\ InitEngine(poll)
    /\ step = "loading"
    /\ errorMessage = ""
    /\ submitCall = NoCall
    /\ styleArgs = NoStyleArgs
    /\ styleOut = NoStyle

\* The synchronisation engine with no active poll and one election type: the
\* remote serves and pushes rows out of R.
NextStore(R) ==
    \/ LoadResolve(R)
    \/ PushEvent(R)
    \/ SubscribeStatus
    \/ ChannelClosed
    \/ PollTick
    \/ HistoryTimerFires
    \/ PollQueryResolve
    \/ Tick
    \/ Unmount

\* The same, and the user switches among the election types ETs.
NextSync(R, ETs) ==
    \/ \E e \in ETs : SetElectionType(e)
    \/ NextStore(R)

\* Partition switching: two of the three election types, the rows of one precinct.
SwitchTypes == {"midterm_2026", "presidential"}
SwitchRows == {r \in SyncRows : r.geo_id = "PCT_0001" /\ r.election_type \in SwitchTypes}

\* The store under one election type: the rows of both precincts.
StoreRows == {r \in SyncRows : r.election_type = InitialElectionType}

Init == InitWith(NULL)

Next == NextSync(SwitchRows, SwitchTypes)

Spec == Init /\ [][Next]_vars

NextOneType == NextStore(StoreRows)

SpecStore == Init /\ [][NextOneType]_vars

\* Change detection: the push channel never reports, the store is written by
\* the initial load, the poll ticks and the push events.
NextChange ==
    \/ LoadResolve(ChangeRows)
    \/ PushEvent(ChangeRows)
    \/ PollTick
    \/ HistoryTimerFires
    \/ PollQueryResolve
    \/ Tick

SpecChange == Init /\ [][NextChange]_vars

\* The dashboard with an active poll: voters submit, the history load and the
\* live feed fill the log and mark precincts; one election type, no rows, the
\* push channel never reports.
NextPoll(G, T, D, max) ==
    \/ LoadResolve({})
    \/ PollTick
    \/ HistoryTimerFires
    \/ PollQueryResolve
    \/ SubsQueryRead
    \/ SubsQueryResolve
    \/ Submit(G, T, D, max, FALSE)
    \/ LiveSubmission
    \/ HighlightExpire
    \/ PulseRemove
    \/ GeoLoaded
    \/ Tick
    \/ Unmount

\* The remote holds an active poll (its id is 1).
InitPoll == InitWith(1)

\* Highlights: a few submissions for either precinct.
NextDash == NextPoll(GeoIds, {"almost_all"}, {"much_higher"}, MaxDashSubs)

SpecDash == InitPoll /\ [][NextDash]_vars

\* The dashboard with an active poll and paced voters: no rows, no map layers,
\* the push channel never reports.
NextPaced(G, T, D, max) ==
    \/ LoadResolve({})
    \/ PollTick
    \/ HistoryTimerFires
    \/ PollQueryResolve
    \/ SubsQueryRead
    \/ SubsQueryResolve
    \/ Submit(G, T, D, max, TRUE)
    \/ LiveSubmission
    \/ HighlightExpire
    \/ Tick

\* The signal log: many submissions for one precinct.
NextLog == NextPaced({"PCT_0001"}, {"most"}, {"about_same"}, MaxSubs)

SpecLog == InitPoll /\ [][NextLog]_vars

\* Classification: one precinct, every pair of answers.
NextClassify ==
    NextPaced({"PCT_0001"}, NeighborTurnoutLevel, TurnoutDirection, MaxClassifySubs)

SpecClassify == InitPoll /\ [][NextClassify]_vars

\* The poll form of one verified voter next to the dashboard: the form's
\* submission is the only one the poll receives.
InitForm ==
    /\ InitEngine(1)
    /\ step = "questions"
    /\ errorMessage = ""
    /\ submitCall = NoCall
    /\ styleArgs = NoStyleArgs
    /\ styleOut = NoStyle

NextForm ==
    \/ HandleSubmit(GeoIds, {"most", "probably_not"}, {"about_same"})
    \/ InsertResolve
    \/ RpcResolve
    \/ LoadResolve({})
    \/ PollTick
    \/ HistoryTimerFires
    \/ PollQueryResolve
    \/ SubsQueryRead
    \/ SubsQueryResolve
    \/ LiveSubmission
    \/ HighlightExpire
    \/ Tick

SpecForm == InitForm /\ [][NextForm]_vars

\* The style callback: the store, the selection and the highlight set give
\* the map any feature out of StyleInputs to draw.
InitStyle ==
    /\ InitEngine(NULL)
    /\ step = "loading"
    /\ errorMessage = ""
    /\ submitCall = NoCall
    /\ styleArgs \in StyleInputs
    /\ styleOut = NoStyle

NextStyle == StyleFeature

SpecStyle == InitStyle /\ [][NextStyle]_vars

\* ------------------------------------------------------------- properties
\* The row a push event carried.
PushedRow(l) == l.rows[CHOOSE g \in DOMAIN l.rows : TRUE]

\* C1: after a partition switch no snapshot of the store holds a record of
\* another partition than the active one, whether pushed or fetched, also when
\* a fetch that was in flight at the switch resolves afterwards.
C1_NoStalePartition ==
    mounted => \A g \in DOMAIN posteriors : posteriors[g].election_type = electionType

\* C2: a push event whose record belongs to another partition than the active
\* one leaves the store unchanged, whichever subscription delivers it.
C2_StaleEventDropped ==
    [][(last'.op = "PushEvent" /\ PushedRow(last').election_type # electionType)
          => posteriors' = posteriors]_vars

\* C3 as claimed: writes apply in arrival order and the last one wins per key;
\* a full-fetch result is merged, a key it lacks keeps its record.
C3_FetchMerges ==
    [][(last'.op = "LoadResolve" /\ mounted)
          => \A g \in DOMAIN posteriors : g \notin DOMAIN last'.rows =>
                g \in DOMAIN posteriors' /\ posteriors'[g] = posteriors[g]]_vars

\* C3 as amended: a full-fetch result replaces the whole store (the store is
\* exactly the fetched rows, other keys are removed); an accepted push event
\* replaces the record of its key and leaves every other key as it was.
C3_LastWriteWins ==
    [][/\ (last'.op = "LoadResolve" /\ mounted) => posteriors' = last'.rows
       /\ (last'.op = "PushEvent" /\ PushedRow(last').election_type = last'.et) =>
            /\ DOMAIN posteriors' = DOMAIN posteriors \cup {PushedRow(last').geo_id}
            /\ \A g \in DOMAIN posteriors' :
                  posteriors'[g] = IF g = PushedRow(last').geo_id
                                      THEN PushedRow(last') ELSE posteriors[g]]_vars

\* A successful fetch changed the store without changing any record it
\* returned: it removed a key the store held and kept another one.
C3_Witness ==
    /\ last.op = "LoadResolve"
    /\ last.ok
    /\ last.wrote
    /\ changedGeoIds = {}
    /\ posteriors # EmptyMap

\* C6: while mounted, the poll interval exists exactly while connected is
\* false, it polls the active election type every PollIntervalMs, and a tick
\* issues a fetch for the active election type and only runs while not connected.
C6_PollsWhileDisconnected ==
    /\ mounted => (pollTimer # NoTimer <=> ~connected)
    /\ pollTimer # NoTimer =>
          pollTimer.et = electionType /\ pollTimer.left \in 0..PollIntervalMs
    /\ last.op = "PollTick" =>
          ~connected /\ last.et = electionType /\ inflight[electionType] > 0

\* A tick ran for an election type the user switched to.
C6_Witness == last.op = "PollTick" /\ electionType # InitialElectionType

\* C8: connected is true only once the subscription of the current channel has
\* reported that it is live.
C8_ConnectedMeansLive == (mounted /\ connected) => channel.live

\* C9: a fetch that fails leaves every stored record in place.
C9_FailedFetchKeepsStore ==
    [][(last'.op = "LoadResolve" /\ ~last'.ok) => posteriors' = posteriors]_vars

\* C10: whenever the change-detection effect runs, a key of the store is in the
\* verdict exactly when the previous snapshot has no record for it or that
\* record's n_eff or mu_post differs from the current one.
C10_ChangeVerdict ==
    [][(mounted /\ last'.op \in {"LoadResolve", "PushEvent"}) =>
          \A g \in GeoIds :
             g \in changedGeoIds' <=>
                /\ g \in DOMAIN posteriors'
                /\ \/ g \notin DOMAIN prevPosteriorsRef
                   \/ prevPosteriorsRef[g].n_eff # posteriors'[g].n_eff
                   \/ prevPosteriorsRef[g].mu_post # posteriors'[g].mu_post]_vars

\* A push replaced the record of a key by one that differs from it, but not
\* in n_eff or mu_post, and the verdict for the key is false.
C10_Witness ==
    /\ last.op = "PushEvent"
    /\ last.wrote
    /\ PushedRow(last).geo_id \notin changedGeoIds

\* C4: a precinct that was marked stays highlighted until a full HighlightMs
\* after its latest mark, so the timer of an earlier mark does not remove it.
C4_RemarkKeepsHighlight ==
    mounted => \A g \in GeoIds :
        (sinceMark[g] # NULL /\ sinceMark[g] < HighlightMs) => g \in recentlyUpdated

C7_TeardownCancelsAll ==
    ~mounted =>
        /\ hlTimers = {}
        /\ pulseTimers = {}
        /\ pollTimer = NoTimer
        /\ historyTimer = NoTimer
        /\ channel = NoChannel

\* C11: when a write into the store is a material change for a key (the change
\* verdict holds for it), the key is in the highlight set right after the
\* write, with an expiry of HighlightMs pending for it.
C11_MaterialChangeHighlights ==
    [][(mounted /\ last'.op \in {"LoadResolve", "PushEvent"}) =>
          \A g \in changedGeoIds' :
             /\ g \in recentlyUpdated'
             /\ [geoId |-> g, left |-> HighlightMs] \in hlTimers']_vars

\* The feature the style callback was last called for, once it has returned.
Styled == styleOut # NoStyle
StyledVisible == HasLiveCalibration(styleArgs.p)
StyledMean == Turnout(MuPrior(styleArgs), styleArgs.p)

C13_OpacityMonotone ==
    (Styled /\ StyledVisible /\ ~styleArgs.isRecentlyUpdated /\ styleArgs.p.n_eff # NULL) =>
        /\ styleOut.fillOpacity <= 900
        /\ \A n2 \in NEffs : styleArgs.p.n_eff <= n2 =>
              styleOut.fillOpacity
                 <= GetOpacity([styleArgs.p EXCEPT !.n_eff = n2], FALSE)

\* A visible record beyond the count where the cap is reached.
C13_Witness ==
    /\ Styled /\ StyledVisible /\ ~styleArgs.isRecentlyUpdated
    /\ styleArgs.p.n_eff = 16
    /\ styleOut.fillOpacity = 900

\* C14: not visible and not highlighted gives opacity 0.55 whatever n_eff;
\* visible and not highlighted gives more than 0.55 and at most 0.9;
\* highlighted gives 0.95 whatever the record.
C14_OpacityRanges ==
    Styled =>
        /\ styleArgs.isRecentlyUpdated => styleOut.fillOpacity = 950
        /\ (~styleArgs.isRecentlyUpdated /\ ~StyledVisible) => styleOut.fillOpacity = 550
        /\ (~styleArgs.isRecentlyUpdated /\ StyledVisible) =>
              styleOut.fillOpacity > 550 /\ styleOut.fillOpacity <= 900

\* A visible record with n_eff 0 got the least opacity of a visible record.
C14_Witness ==
    /\ Styled /\ StyledVisible /\ ~styleArgs.isRecentlyUpdated
    /\ styleArgs.p.n_eff = 0
    /\ styleOut.fillOpacity = 600

\* The colour bands, lowest first.
Bands == <<"#164E63", "#155E75", "#0E7490", "#0891B2", "#06B6D4", "#22D3EE", "#00E5FF">>
BandOf(c) == CHOOSE i \in 1..Len(Bands) : Bands[i] = c
BandOfMean(m) == BandOf(GetTurnoutColor(m, NoRecord, FALSE))

\* C15: not highlighted, the band does not decrease when the displayed mean
\* grows, at least 6 bands occur, a mean of at most 0.25 is in the lowest band
\* and one of at least 0.80 in the highest; highlighted, the colour is the
\* flash colour.
C15_ColorBands ==
    Styled =>
        /\ styleArgs.isRecentlyUpdated => styleOut.fillColor = FlashColor
        /\ ~styleArgs.isRecentlyUpdated =>
              /\ BandOf(styleOut.fillColor) = BandOfMean(StyledMean)
              /\ \A m2 \in Means : StyledMean <= m2 =>
                    BandOf(styleOut.fillColor) <= BandOfMean(m2)
              /\ StyledMean <= 25 => BandOf(styleOut.fillColor) = 1
              /\ StyledMean >= 80 => BandOf(styleOut.fillColor) = Len(Bands)
        /\ Cardinality({BandOfMean(m) : m \in Means}) >= 6

\* A visible record whose posterior mean is 0.80 got the highest band.
C15_Witness ==
    /\ Styled /\ StyledVisible /\ ~styleArgs.isRecentlyUpdated
    /\ styleArgs.p.mu_post = 80
    /\ styleOut.fillColor = "#00E5FF"

\* C16: for a record that is not visible and not highlighted the path options
\* are those of any record that differs from it in mu_post and n_eff only;
\* the displayed mean is mu_post only when the record is visible and has one.
C16_HiddenUsesPriorOnly ==
    Styled =>
        /\ (styleArgs.p # NoRecord /\ ~StyledVisible /\ ~styleArgs.isRecentlyUpdated) =>
              \A post2 \in Means \cup {NULL} : \A n2 \in NEffs \cup {NULL} :
                 Style([styleArgs EXCEPT !.p.mu_post = post2, !.p.n_eff = n2]) = styleOut
        /\ StyledMean # MuPrior(styleArgs) =>
              StyledVisible /\ styleArgs.p.mu_post # NULL /\ StyledMean = styleArgs.p.mu_post

\* A record that is not visible, with a posterior mean in another band than
\* its prior mean and a positive n_eff, was styled by its prior mean.
C16_Witness ==
    /\ Styled /\ styleArgs.p # NoRecord /\ ~StyledVisible /\ ~styleArgs.isRecentlyUpdated
    /\ styleArgs.p.mu_prior = 30 /\ styleArgs.p.mu_post = 80 /\ styleArgs.p.n_eff = 8
    /\ styleOut.fillColor = "#164E63"
    /\ styleOut.fillOpacity = 550

\* Emphasis of a feature that is neither highlighted nor selected.
PlainEmphasis(p, muPrior) ==
    [glow |-> GetGlowIntensity(p, muPrior),
     weight |-> Weight(FALSE, FALSE, GetGlowIntensity(p, muPrior))]
AtMost(e1, e2) == e1.glow <= e2.glow /\ e1.weight <= e2.weight

\* C17 as claimed: a highlighted or selected feature gets the maximum
\* emphasis, the same for both.
C17_HighlightedAsSelected ==
    (Styled /\ (styleArgs.isRecentlyUpdated \/ styleArgs.isSelected)) =>
        /\ styleOut.weight = 25
        /\ styleOut.color = [rgb |-> FlashColor, a |-> 100]

\* C17 as amended: neither highlighted nor selected, emphasis (glow, weight)
\* does not decrease when the displayed mean grows and is not lower for a
\* visible record than for one that is not visible with the same displayed
\* mean; a selected feature gets the maximum weight 2.5 and the flash border;
\* a highlighted feature that is not selected gets the flash border and weight
\* 2, below the selected weight and above every weight of a feature that is
\* neither.
C17_EmphasisLadder ==
    Styled =>
        /\ styleArgs.isSelected =>
              styleOut.weight = 25 /\ styleOut.color = [rgb |-> FlashColor, a |-> 100]
        /\ (styleArgs.isRecentlyUpdated /\ ~styleArgs.isSelected) =>
              /\ styleOut.weight = 20
              /\ styleOut.color = [rgb |-> FlashColor, a |-> 100]
              /\ \A m \in Means : \A vis \in BOOLEAN :
                    PlainEmphasis(Row("PCT_0001", InitialElectionType, m, m, NULL, 0, vis, 0),
                                  m).weight < styleOut.weight
        /\ (~styleArgs.isRecentlyUpdated /\ ~styleArgs.isSelected /\ styleArgs.p # NoRecord) =>
              LET own == PlainEmphasis(styleArgs.p, MuPrior(styleArgs))
                  hidden(m) == [styleArgs.p EXCEPT !.is_visible = FALSE, !.mu_prior = m]
                  shown(m) == [styleArgs.p EXCEPT !.is_visible = TRUE, !.mu_post = m]
              IN  /\ styleOut.weight = own.weight
                  /\ styleOut.color.a = IF own.glow > 0 THEN own.glow ELSE 100
                  /\ \A m2 \in Means : StyledMean <= m2 =>
                        AtMost(own, PlainEmphasis(IF StyledVisible THEN shown(m2) ELSE hidden(m2),
                                                  m2))
                  /\ AtMost(PlainEmphasis(hidden(StyledMean), StyledMean),
                            PlainEmphasis(shown(StyledMean), StyledMean))

\* A highlighted feature that is not selected was styled.
C17_Witness ==
    /\ Styled
    /\ styleArgs.isRecentlyUpdated /\ ~styleArgs.isSelected
    /\ styleOut.weight = 20

\* The answer scales, lowest first, and the ordinal score -2..+2 of a level.
TurnoutScale == <<"definitely_not", "probably_not", "about_half", "most", "almost_all">>
DirectionScale == <<"much_lower", "little_lower", "about_same", "little_higher", "much_higher">>
Ordinal(scale, level) == (CHOOSE i \in 1..5 : scale[i] = level) - 3
Opposite(scale, level) == scale[3 - Ordinal(scale, level)]
Mirror(dir) == IF dir = "higher" THEN "lower" ELSE IF dir = "lower" THEN "higher" ELSE "same"

\* primary + 0.5 * secondary against +-0.5, doubled.
Direction(t, d) ==
    LET sum2 == 2 * Ordinal(TurnoutScale, t) + Ordinal(DirectionScale, d)
    IN  IF sum2 > 1 THEN "higher" ELSE IF sum2 < -1 THEN "lower" ELSE "same"

\* C18: every signal of the log carries the direction that primary + 0.5 *
\* secondary of its submission's two answers gives against the thresholds
\* +-0.5; almost_all/much_higher is higher, definitely_not/much_lower is lower,
\* about_half/about_same is same, and the opposite answers give the mirrored
\* direction.
C18_DirectionFromScores ==
    /\ \A i \in 1..Len(signals) :
          LET sub == submissions[signals[i].id]
          IN  signals[i].signalType = Direction(sub.neighbor_turnout, sub.turnout_direction)
    /\ GetSignalType("almost_all", "much_higher") = "higher"
    /\ GetSignalType("definitely_not", "much_lower") = "lower"
    /\ GetSignalType("about_half", "about_same") = "same"
    /\ \A t \in NeighborTurnoutLevel : \A d \in TurnoutDirection :
          GetSignalType(Opposite(TurnoutScale, t), Opposite(DirectionScale, d))
             = Mirror(GetSignalType(t, d))

\* A live submission whose sum is exactly 0.5 was classified as same.
C18_Witness ==
    /\ last.op = "LiveSubmission"
    /\ Len(signals) = 1
    /\ signals[1].id = 1
    /\ submissions[1].neighbor_turnout = "about_half"
    /\ submissions[1].turnout_direction = "little_higher"
    /\ signals[1].signalType = "same"

\* The impact the absolute divergence score z (hundredths, NULL if the
\* precinct has no record or no score) calls for.
ImpactFor(z) ==
    IF z # NULL /\ Abs(z) >= 150 THEN "large"
    ELSE IF z # NULL /\ Abs(z) >= 75 THEN "medium"
    ELSE "small"
CurrentZ(g) == IF g \in DOMAIN posteriors THEN posteriors[g].divergence_z ELSE NULL

\* C19: every signal of the log, live or loaded from history, carries the
\* impact that the divergence score of its precinct's record calls for: large
\* from 1.5, medium from 0.75, small otherwise and when there is no record.
\* (Here the store never holds a record, so the score is the same at every
\* moment: none.)
C19_ImpactFromDivergence ==
    mounted => \A i \in 1..Len(signals) :
        signals[i].impact = ImpactFor(CurrentZ(signals[i].geoId))

\* C20: the form reaches its error step exactly when the insert of the
\* submission fails, and then nothing was recorded and the store, the log and
\* the highlight set are as they were; when the insert succeeds the form
\* reaches success whether the remote recomputation succeeds or fails, and the
\* submission is recorded.
C20_SubmitReportsRecording ==
    [][/\ (step' = "error" /\ step # "error") <=>
             (last'.op = "InsertResolve" /\ ~last'.ok)
       /\ (last'.op = "InsertResolve" /\ ~last'.ok) =>
             /\ submitCall' = NoCall
             /\ UNCHANGED <<submissions, posteriors, signals, recentlyUpdated, hlTimers>>
       /\ step' = "error" =>
             submissions' = <<>> /\ signals' = <<>> /\ recentlyUpdated' = {}
       /\ (last'.op = "InsertResolve" /\ last'.ok) =>
             step' = "submitting" /\ Len(submissions') = Len(submissions) + 1
       /\ last'.op = "RpcResolve" => step' = "success" /\ Len(submissions') = 1
       /\ (step' = "success" /\ step # "success") => last'.op = "RpcResolve"]_vars

\* The submission was recorded, the recomputation failed, the form shows
\* success and the dashboard has logged the live signal.
C20_Witness ==
    /\ step = "success"
    /\ last.op = "RpcResolve"
    /\ ~last.ok
    /\ Len(signals) = 1

(***************************************************************************)
(* C21.  On a partition switch the subscription of the old partition is    *)
(* released and its poll timer cancelled before the new subscription is    *)
(* opened: a poll timer, when there is one, fetches the active partition,  *)
(* and every subscription callback that runs (a change event or a status   *)
(* report) belongs to the subscription of the active partition, so no two  *)
(* subscriptions for different partitions are ever active together.        *)
(***************************************************************************)
C21_OnePartitionAtATime ==
    /\ [](mounted /\ pollTimer # NoTimer => pollTimer.et = electionType)
    /\ [][last'.op \in {"PushEvent", "SubscribeStatus"}
             => last'.et = electionType']_vars

(***************************************************************************)
(* C22.  The push subscription is opened only after the initial full       *)
(* fetch has returned and been merged: no change event of a live           *)
(* subscription is written into the store while the initial fetch is       *)
(* still in flight.  Before any time has passed since the start (the       *)
(* history timer is untouched) the one fetch in flight is the initial one. *)
(***************************************************************************)
InitialFetchInFlight ==
    /\ historyTimer = [left |-> HistoryDelayMs]
    /\ inflight[electionType] > 0

C22_FetchBeforeSubscribe ==
    [][(last'.op = "PushEvent" /\ last'.wrote /\ channel.live)
          => ~InitialFetchInFlight]_vars

(***************************************************************************)
(* Change events that lack a required field.  payload.new is cast to       *)
(* PosteriorEstimate unchecked: a field the payload does not carry reads   *)
(* as undefined.  A DELETE event carries an empty new record.              *)
(***************************************************************************)
Undefined == "undefined"

\* payload.new = {} of a DELETE event: every field is missing.
DeleteEventRow == Row(Undefined, Undefined, NULL, NULL, NULL, NULL, FALSE, NULL)

MalformedRows ==
    {[r EXCEPT !.geo_id = Undefined] : r \in StoreRows}
        \cup {[r EXCEPT !.election_type = Undefined] : r \in StoreRows}
        \cup {DeleteEventRow}

\* One election type; the channel delivers well-formed and malformed events.
NextPush ==
    \/ LoadResolve(StoreRows)
    \/ PushEvent(StoreRows \cup MalformedRows)
    \/ SubscribeStatus
    \/ ChannelClosed
    \/ PollTick
    \/ HistoryTimerFires
    \/ PollQueryResolve
    \/ Tick
    \/ Unmount

SpecPush == Init /\ [][NextPush]_vars

LacksRequiredField(row) ==
    row.geo_id = Undefined \/ row.election_type = Undefined

(***************************************************************************)
(* C23.  A change event whose record lacks geo_id or election_type (a      *)
(* DELETE event with no new record included) is dropped: the store is      *)
(* left as it was, and no entry is ever stored under a missing key.        *)
(***************************************************************************)
C23_MalformedEventDropped ==
    /\ [](Undefined \notin DOMAIN posteriors)
    /\ [][(last'.op = "PushEvent"
              /\ \E k \in DOMAIN last'.rows : LacksRequiredField(last'.rows[k]))
            => posteriors' = posteriors]_vars

(***************************************************************************)
(* C24.  When the subscription reports a status other than SUBSCRIBED,     *)
(* `connected` becomes false and fallback polling of the active partition  *)
(* starts: whenever the hook is mounted and not connected a poll timer for *)
(* the active partition is pending.  The report is absorbed: the hook      *)
(* stays mounted and the store is left as it was.                          *)
(***************************************************************************)
C24_NotLiveStartsPolling ==
    /\ [](mounted /\ ~connected
             => pollTimer # NoTimer /\ pollTimer.et = electionType)
    /\ [][(last'.op = "SubscribeStatus" /\ ~last'.ok)
            => /\ ~connected'
               /\ mounted'
               /\ posteriors' = posteriors
               /\ connected => pollTimer' = [left |-> PollIntervalMs, et |-> electionType]]_vars

\* A subscription that was live reports a failure after the store was filled
\* and time has passed: polling of the active partition is pending again.
C24_Witness ==
    /\ last.op = "SubscribeStatus" /\ ~last.ok
    /\ mounted /\ ~connected /\ ~channel.live
    /\ historyTimer = NoTimer
    /\ posteriors # EmptyMap
    /\ pollTimer = [left |-> PollIntervalMs, et |-> electionType]

(***************************************************************************)
(* The dashboard of SpecDash under the scheduling of the browser: time     *)
(* passes, a due timer callback runs, a fetch in flight settles.           *)
(***************************************************************************)
FairDash ==
    /\ WF_vars(Tick)
    /\ WF_vars(HighlightExpire)
    /\ WF_vars(PulseRemove)
    /\ WF_vars(PollTick)
    /\ WF_vars(HistoryTimerFires)
    /\ WF_vars(LoadResolve({}))

SpecDashFair == InitPoll /\ [][NextDash]_vars /\ FairDash

(***************************************************************************)
(* C25.  Every key in the highlight set of the mounted dashboard has a     *)
(* pending expiry timer, and a highlighted key is eventually removed from  *)
(* the set (marks are finite, so from some point on no further mark        *)
(* occurs).                                                                *)
(***************************************************************************)
C25_HighlightExpires ==
    /\ [](mounted => \A g \in recentlyUpdated : \E t \in hlTimers : t.geoId = g)
    /\ \A g \in GeoIds :
           (mounted /\ g \in recentlyUpdated) ~> (~mounted \/ g \notin recentlyUpdated)

\* Every submission was delivered and marked its precinct, the last expiry
\* has just emptied the set.
C25_Witness ==
    /\ mounted
    /\ last.op = "HighlightExpire"
    /\ delivered = MaxDashSubs
    /\ recentlyUpdated = {} /\ hlTimers = {}

(***************************************************************************)
(* The remote table of the active partition made explicit: every precinct  *)
(* has a row, a recomputation moves a row to its next version, a change is *)
(* pushed to a subscription that is live and lost otherwise, and a fetch   *)
(* returns the rows as the remote read them, which is some time after the  *)
(* fetch was sent and before its result arrives.  Fetches succeed.         *)
(***************************************************************************)
RemoteRows(snap, e) == [g \in GeoIds |-> VersionRow(g, e, snap[g])]

\* posterior_estimates changes at the remote; the change event reaches the
\* postgres_changes callback when the channel is live.
RemoteChange ==
    \E g \in GeoIds :
        /\ remote[g] < MaxVersion
        /\ remote' = [remote EXCEPT ![g] = @ + 1]
        /\ UNCHANGED loadSnap
        /\ IF mounted /\ channel # NoChannel /\ channel.live
              THEN PushHandled({VersionRow(g, electionType, remote[g] + 1)})
              ELSE /\ last' = Op("RemoteChange")
                   /\ UNCHANGED <<mounted, syncVars, mapVars, dashVars, remoteVars,
                                  formVars, styleVars, quizVars, sinceMark>>

\* The remote executes the select of fetchPosteriors.
FetchRead ==
    /\ inflight[electionType] > 0
    /\ loadSnap = NoSnap
    /\ loadSnap' = remote
    /\ last' = Op("FetchRead")
    /\ UNCHANGED <<mounted, syncVars, mapVars, dashVars, remoteVars, formVars,
                   styleVars, quizVars, remote, sinceMark>>

\* load() after its await: the rows that were read are installed.
LoadResolveRemote ==
    /\ loadSnap # NoSnap
    /\ LoadResolved([e \in ElectionType |->
                        {[ok |-> TRUE, data |-> RemoteRows(loadSnap, e)]}])
    /\ loadSnap' = NoSnap
    /\ UNCHANGED remote

NextRemote ==
    \/ RemoteChange
    \/ FetchRead
    \/ LoadResolveRemote
    \/ SubscribeStatus
    \/ PollTick
    \/ HistoryTimerFires
    \/ PollQueryResolve
    \/ Tick

\* Time passes, a due timer callback runs, the remote answers a fetch.  The
\* remote need not change again and the channel need not report again.
FairRemote ==
    /\ WF_vars(Tick)
    /\ WF_vars(PollTick)
    /\ WF_vars(HistoryTimerFires)
    /\ WF_vars(PollQueryResolve)
    /\ WF_vars(FetchRead)
    /\ WF_vars(LoadResolveRemote)

SpecRemote == Init /\ [][NextRemote]_vars /\ FairRemote

StoreIsRemote == posteriors = RemoteRows(remote, electionType)

(***************************************************************************)
(* C26.  Staleness is bounded and self-correcting: the remote changes      *)
(* finitely often and fetches succeed, so once the connection has settled  *)
(* (up for good or down for good) the store comes to equal the remote      *)
(* state and stays equal, also after a fetch that was read before a change *)
(* was pushed has resolved after it and replaced the newer record while    *)
(* `connected` is true.                                                    *)
(***************************************************************************)
C26_StoreConverges ==
    (<>[]connected \/ <>[]~connected) => <>[]StoreIsRemote

(***************************************************************************)
(* PollForm: the questions step.  The buttons exist while the step is      *)
(* rendered, which needs QUESTIONS[currentQuestion]; with an index past    *)
(* the last question the render throws and the form is unmounted.          *)
(***************************************************************************)
QuestionsRendered ==
    step = "questions" /\ currentQuestion \in 0..(QuestionCount - 1)

RenderThrew ==
    step = "questions" /\ currentQuestion \notin 0..(QuestionCount - 1)

\* An option of the question shown is clicked: the answer is stored and,
\* unless the last question is shown, an advance is scheduled 300 ms ahead.
HandleAnswer ==
    /\ QuestionsRendered
    /\ answered' = answered \cup {currentQuestion}
    /\ IF currentQuestion < QuestionCount - 1
          THEN /\ advanceTimers < MaxAdvance
               /\ advanceTimers' = advanceTimers + 1
          ELSE advanceTimers' = advanceTimers
    /\ last' = Op("HandleAnswer")
    /\ UNCHANGED <<mounted, syncVars, mapVars, dashVars, remoteVars, formVars,
                   styleVars, feedVars, currentQuestion, sinceMark>>

\* A scheduled advance fires: setCurrentQuestion(prev => prev + 1), whatever
\* the index is by now (a state update after unmount is discarded).
AdvanceFires ==
    /\ advanceTimers > 0
    /\ advanceTimers' = advanceTimers - 1
    /\ currentQuestion' = IF RenderThrew THEN currentQuestion ELSE currentQuestion + 1
    /\ last' = Op("AdvanceFires")
    /\ UNCHANGED <<mounted, syncVars, mapVars, dashVars, remoteVars, formVars,
                   styleVars, feedVars, answered, sinceMark>>

\* Next: shown before the last question, enabled once the question shown has
\* an answer.
NextClicked ==
    /\ QuestionsRendered
    /\ currentQuestion < QuestionCount - 1
    /\ currentQuestion \in answered
    /\ currentQuestion' = currentQuestion + 1
    /\ last' = Op("NextClicked")
    /\ UNCHANGED <<mounted, syncVars, mapVars, dashVars, remoteVars, formVars,
                   styleVars, feedVars, answered, advanceTimers, sinceMark>>

\* Back: shown after the first question.
BackClicked ==
    /\ QuestionsRendered
    /\ currentQuestion > 0
    /\ currentQuestion' = currentQuestion - 1
    /\ last' = Op("BackClicked")
    /\ UNCHANGED <<mounted, syncVars, mapVars, dashVars, remoteVars, formVars,
                   styleVars, feedVars, answered, advanceTimers, sinceMark>>

\* Submit Response: shown at the last question, enabled once every question
\* has an answer.
SubmitClicked(G, T, D) ==
    /\ QuestionsRendered
    /\ currentQuestion = QuestionCount - 1
    /\ answered = 0..(QuestionCount - 1)
    /\ HandleSubmit(G, T, D)

NextQuiz ==
    \/ HandleAnswer
    \/ AdvanceFires
    \/ NextClicked
    \/ BackClicked
    \/ SubmitClicked(GeoIds, {"most", "probably_not"}, {"about_same"})
    \/ InsertResolve
    \/ RpcResolve

SpecQuiz == InitForm /\ [][NextQuiz]_vars

(***************************************************************************)
(* C27.  The index of the question shown by the poll form is always one of *)
(* 0, 1, 2, whatever the interleaving of answer clicks, auto-advance       *)
(* timers, Next and Back.                                                  *)
(***************************************************************************)
C27_QuestionIndexInRange == currentQuestion \in 0..(QuestionCount - 1)

LogIds(log) == {log[i].id : i \in 1..Len(log)}

(***************************************************************************)
(* C28.  A signal appended by the live feed leaves the log only through    *)
(* capacity eviction: whatever step is taken, the completion of the        *)
(* history load included, every entry of the log is still in it afterwards *)
(* unless the log is full.                                                 *)
(***************************************************************************)
C28_LiveSignalKept ==
    [][LogIds(signals) \subseteq LogIds(signals') \/ Len(signals') >= HistoryKeep]_vars

(***************************************************************************)
(* C29.  No two entries of the signal log carry the same signal id, also   *)
(* when an observation is both returned by the history load and delivered  *)
(* by the live feed.                                                       *)
(***************************************************************************)
C29_SignalIdsUnique ==
    \A i \in 1..Len(signals) : \A j \in 1..Len(signals) :
        i # j => signals[i].id # signals[j].id

(***************************************************************************)
(* C30.  For every pair of answers the sign of the estimated shift agrees  *)
(* with the direction (higher: positive, lower: negative), and the history *)
(* load and the live feed compute the same direction and the same shift    *)
(* for the same submission: every entry of the log carries the values      *)
(* either path gives for its submission.                                   *)
(***************************************************************************)
C30_ShiftAgreesWithDirection ==
    \A i \in 1..Len(signals) :
        LET s == signals[i]
            sub == submissions[s.id]
            live == LiveSignal(sub, posteriors)
            loaded == LoadedSignal(sub)
        IN  /\ s.signalType = "higher" => s.posteriorShift > 0
            /\ s.signalType = "lower" => s.posteriorShift < 0
            /\ s.signalType = live.signalType /\ s.signalType = loaded.signalType
            /\ s.posteriorShift = live.posteriorShift
            /\ s.posteriorShift = loaded.posteriorShift

\* The history load has classified a submission whose two answers pull in
\* opposite directions: the primary answer decides both direction and sign.
C30_Witness ==
    /\ last.op = "SubsQueryResolve"
    /\ Len(signals) = 1
    /\ submissions[signals[1].id].neighbor_turnout = "definitely_not"
    /\ submissions[signals[1].id].turnout_direction = "much_higher"
    /\ signals[1].signalType = "lower"
    /\ signals[1].posteriorShift < 0

====
